---- MODULE Spec2Model ----
(***************************************************************************)
(* State-machine model of the env-sensor-dashboard device layer:           *)
(*   src/sensor.py  - frame codec, staleness detector, USB reset, Sensor   *)
(*   src/app.py     - main, the sensor_loop thread, the /api/latest route  *)
(*   src/database.py - insert_reading / get_latest (as the latest row)     *)
(*                                                                         *)
(* Bytes are integers 0..255, buffers are sequences of bytes.  A Reading   *)
(* is a record of the nine decoded fields, each held as an integer in      *)
(* units of its resolution (temperature 0.01 degC, pressure 0.001 hPa...), *)
(* which is the value round(raw * scale, digits) denotes.  An optional     *)
(* value (Python None or an object) is the empty or one-element sequence.  *)
(*                                                                         *)
(* The serial link is pyserial's Serial as sensor.py constructs it (no     *)
(* timeout argument): read(n) returns once n bytes have arrived, close()   *)
(* does not raise, every other operation may raise, and every operation    *)
(* on a closed port raises.  The device's answer to one command has        *)
(* arrived or is lost by the time read() returns: bytes left in the input  *)
(* buffer are dropped by the next reset_input_buffer in any case.          *)
(***************************************************************************)
EXTENDS Integers, Sequences, FiniteSets, TLC

\* ------------------------------------------------------------------ bounds
\* The history of the calls (nReads, refData, uniform) covers the first MaxReads
\* calls of sensor.read(); the polling loop itself runs on without end.
MaxReads == 13
\* Size of the first chunk the device may deliver ahead of the rest.
ChunkLen == 10
\* Longest buffer handed to the decoder on its own.
MaxBufLen == 40

\* --------------------------------------------------------- program constants
STALE_THRESHOLD == 10
MIN_RESPONSE_LEN == 30
READ_DEFAULT_SIZE == 64
POLL_ATTEMPTS == 10
WARMUP_READS == 3
HDR0 == 82
HDR1 == 66
FIELD_BASE == 8
CRC_INIT == 65535
CRC_POLY == 40961
CRC_BITS == 8

None == <<>>
Some(x) == <<x>>

\* ---------------------------------------------------------------- codec
U16(d, off) == d[off + 1] + 256 * d[off + 2]
\* a signed field read as unsigned
S16Unsigned(d, off) == U16(d, off)
S16(d, off) == IF U16(d, off) >= 32768 THEN U16(d, off) - 65536 ELSE U16(d, off)
\* An unsigned 32-bit value exceeds TLC's 32-bit integers: it is held as its two
\* base-65536 digits, most significant first (the value is hi * 65536 + lo).
U32(d, off) == <<U16(d, off + 2), U16(d, off)>>

\* _parse_response: "short" / "header" are the two ValueErrors.
ParseError(d) ==
    IF Len(d) < MIN_RESPONSE_LEN THEN "short"
    ELSE IF d[1] # HDR0 \/ d[2] # HDR1 THEN "header"
    ELSE "ok"

\* The struct formats of lines 70-86 in order, and the bytes each one takes.
FieldFormats == <<"h", "H", "H", "I", "H", "H", "H", "H", "h">>
FormatSize(f) == IF f = "I" THEN 4 ELSE 2

\* offset = 8, then offset += size after each unpack_from
RECURSIVE FieldOffset(_)
FieldOffset(k) ==
    IF k = 1 THEN FIELD_BASE
    ELSE FieldOffset(k - 1) + FormatSize(FieldFormats[k - 1])

\* the byte offsets the unpack_from calls read
UnpackBytes ==
    UNION {FieldOffset(k) .. (FieldOffset(k) + FormatSize(FieldFormats[k]) - 1) :
           k \in 1..Len(FieldFormats)}

\* The raw integers; the dict's scaling (x 0.01, x 0.001) and rounding is one-to-one.
ParseFields(d) ==
    [temperature |-> S16(d, FieldOffset(1)),
     humidity    |-> U16(d, FieldOffset(2)),
     light       |-> U16(d, FieldOffset(3)),
     pressure    |-> U32(d, FieldOffset(4)),
     noise       |-> U16(d, FieldOffset(5)),
     etvoc       |-> U16(d, FieldOffset(6)),
     eco2        |-> U16(d, FieldOffset(7)),
     discomfort  |-> U16(d, FieldOffset(8)),
     heat_stroke |-> S16(d, FieldOffset(9))]

\* ------------------------------------------------------------- checksum
\* a ^ b on non-negative integers of any width: bit i and the bits above it
RECURSIVE XorFrom(_, _, _)
XorFrom(a, b, i) ==
    IF 2^i > a /\ 2^i > b THEN 0
    ELSE 2^i * ((((a \div 2^i) % 2) + ((b \div 2^i) % 2)) % 2) + XorFrom(a, b, i + 1)

Xor(a, b) == XorFrom(a, b, 0)

\* lines 28-32: for _ in range(8): carry = crc & 1; crc >>= 1;
\* if carry: crc ^= 0xA001      (n is the number of rounds still to run)
RECURSIVE CrcShifts(_, _)
CrcShifts(crc, n) ==
    IF n = 0 THEN crc
    ELSE IF crc % 2 = 1 THEN CrcShifts(Xor(crc \div 2, CRC_POLY), n - 1)
    ELSE CrcShifts(crc \div 2, n - 1)

\* lines 25-32: the register after the first k bytes of d
RECURSIVE CrcFold(_, _)
CrcFold(d, k) ==
    IF k = 0 THEN CRC_INIT
    ELSE CrcShifts(Xor(CrcFold(d, k - 1), d[k]), CRC_BITS)

\* the two checksum bytes the other way round
CalcCrcHighFirst(d) == <<CrcFold(d, Len(d)) \div 256, CrcFold(d, Len(d)) % 256>>

\* line 33: bytearray([crc & 0xFF, crc >> 8])
CalcCrc(d) == <<CrcFold(d, Len(d)) % 256, CrcFold(d, Len(d)) \div 256>>

\* lines 39-40
CommandBody == <<82, 66, 5, 0, 1, 33, 80>>
BuildReadCommand == CommandBody \o CalcCrc(CommandBody)

\* ------------------------------------------------- device responses (inputs)
Frame(h1, seed, n) ==
    [i \in 1..n |-> IF i = 1 THEN HDR0 ELSE IF i = 2 THEN h1 ELSE (i * 37 + seed) % 256]

FrameA == Frame(HDR1, 1, MIN_RESPONSE_LEN)
FrameB == Frame(HDR1, 100, MIN_RESPONSE_LEN)
FrameBadHdr == Frame(0, 1, MIN_RESPONSE_LEN)
FrameShort == SubSeq(FrameA, 1, 20)
\* long enough to complete a read(64) that follows a first chunk
FrameLong == Frame(HDR1, 1, READ_DEFAULT_SIZE + ChunkLen)
Responses == {FrameA, FrameB, FrameBadHdr, FrameShort, FrameLong, <<>>}
\* answers to the warm-up commands: their bytes are dropped, only the amount matters
WarmResponses == {FrameA, FrameLong, <<>>}

MockReadings == {ParseFields(FrameA), ParseFields(FrameB)}

Handlers == {"h1"}

VARIABLES
    mock, serial, last_reading, stale_count,     \* Sensor fields
    mainpc,                                      \* main()
    pc, result,                                  \* sensor_loop thread, its variable data
    data, reading, reset_ok, poll_i, warm_i,     \* locals of _real_read, _check_stale, _usb_reset
    rx, pending,                                 \* link input buffer, bytes in flight
    latest, lock, db,                            \* _latest_reading, _latest_lock, readings table
    hpc, hdata,                                  \* api_latest handlers
    nReads, refData, uniform,                    \* history: the calls so far, while all alike
    log, cycStale, cycFault,                     \* history: the current call
    resp,                                        \* history: the device's answer awaiting decode
    afterStale                                   \* history: no reading decoded since a Stale

vars == <<mock, serial, last_reading, stale_count, mainpc, pc, result,
          data, reading, reset_ok, poll_i, warm_i, rx, pending, latest, lock, db,
          hpc, hdata, nReads, refData, uniform, log, resp, cycStale, cycFault, afterStale>>

sensorVars == <<mock, serial, last_reading, stale_count>>
localVars == <<data, reading, reset_ok, poll_i, warm_i>>
linkVars == <<rx, pending>>
appVars == <<latest, lock, db>>
handlerVars == <<hpc, hdata>>
runVars == <<nReads, refData, uniform>>
cycVars == <<log, resp, cycStale, cycFault, afterStale>>

\* Sensor.__init__ and the module globals of app.py
Init ==
    /\ mock \in BOOLEAN
    /\ serial = "none"
    /\ last_reading = None
    /\ stale_count = 0
    /\ mainpc = "open"
    /\ pc = "not_started"
    /\ result = None
    /\ data = <<>>
    /\ reading = None
    /\ reset_ok = FALSE
    /\ poll_i = 0
    /\ warm_i = 0
    /\ rx = <<>>
    /\ pending = <<>>
    /\ latest = None
    /\ lock = "free"
    /\ db = None
    /\ hpc = [h \in Handlers |-> "idle"]
    /\ hdata = [h \in Handlers |-> None]
    /\ nReads = 0
    /\ refData = <<>>
    /\ uniform = TRUE
    /\ log = <<>>
    /\ resp = <<>>
    /\ cycStale = FALSE
    /\ cycFault = FALSE
    /\ afterStale = FALSE

\* ------------------------------------------------------------------ helpers
\* The end of a read() call: v is handed back to sensor_loop and the locals of the
\* call are gone.  alike: the call decoded the same bytes as every call before it.
\* nReads counts the calls while all were alike, for the first MaxReads calls.
Returns(v, alike) ==
    /\ result' = v
    /\ pc' = "loop_got"
    /\ data' = <<>>
    /\ reading' = None
    /\ reset_ok' = FALSE
    /\ poll_i' = 0
    /\ warm_i' = 0
    /\ rx' = <<>>
    /\ pending' = <<>>
    /\ uniform' = (uniform /\ alike /\ nReads + 1 < MaxReads)
    /\ nReads' = IF uniform' THEN nReads + 1 ELSE 0
    /\ refData' = IF uniform' THEN (IF nReads = 0 THEN data ELSE refData) ELSE <<>>

Alike == nReads = 0 \/ data = refData

\* An exception raised inside a try block: control moves to its handler.
Raise(handler) ==
    /\ pc' = handler
    /\ cycFault' = TRUE

\* Variant of Concat: the retry chunk put in front of the first chunk.
ConcatReversed(d, chunk) == chunk \o d

\* data += chunk (sensor.py line 239); line 235 is the same with data empty.
Concat(d, chunk) == d \o chunk

\* in_waiting or 64
ReadSize == IF Len(rx) > 0 THEN Len(rx) ELSE READ_DEFAULT_SIZE

\* Variant of StaleReached: the threshold met one identical reading early.
StaleReachedEarly(count) == count >= STALE_THRESHOLD - 1

\* the comparison of line 204
StaleReached(count) == count >= STALE_THRESHOLD

\* the places where the thread sleeps or blocks and bytes may arrive
WaitPcs == {"read1", "read1_block", "read2", "read2_block", "warm_read", "warm_read_block"}

\* ------------------------------------------------------------------- main()
MainOpen ==
    /\ mainpc = "open"
    /\ \/ /\ mock
          /\ mainpc' = "start"
          /\ UNCHANGED serial
       \/ /\ ~mock
          /\ serial' = "open"
          /\ mainpc' = "start"
       \/ /\ ~mock                     \* serial.Serial raises: main() ends
          /\ mainpc' = "crashed"
          /\ UNCHANGED serial
    /\ UNCHANGED <<mock, last_reading, stale_count, pc, result>>
    /\ UNCHANGED <<localVars, linkVars, appVars, handlerVars, runVars, cycVars>>

MainStart ==
    /\ mainpc = "start"
    /\ mainpc' = "running"
    /\ pc' = "call"
    /\ UNCHANGED <<sensorVars, result>>
    /\ UNCHANGED <<localVars, linkVars, appVars, handlerVars, runVars, cycVars>>

\* ------------------------------------------------------------ Sensor.read()
\* sensor_loop line 30: data = sensor.read()
LoopCall ==
    /\ pc = "call"
    /\ pc' = IF mock THEN "mock_read" ELSE "flush"
    /\ UNCHANGED <<sensorVars, mainpc, result>>
    /\ UNCHANGED <<localVars, linkVars, appVars, handlerVars, runVars, cycVars>>

MockRead ==
    /\ pc = "mock_read"
    /\ \E r \in MockReadings : Returns(Some(r), FALSE)
    /\ UNCHANGED <<sensorVars, mainpc, appVars, handlerVars, cycVars>>

\* line 230: self._serial.reset_input_buffer()
Flush ==
    /\ pc = "flush"
    /\ \/ /\ serial = "open"
          /\ rx' = <<>>
          /\ pc' = "write"
          /\ log' = Append(log, "flush")
          /\ UNCHANGED cycFault
       \/ /\ Raise("except_read")      \* I/O error, or the port is not open
          /\ UNCHANGED <<rx, log>>
    /\ UNCHANGED <<sensorVars, mainpc, result, localVars, pending>>
    /\ UNCHANGED <<appVars, handlerVars, runVars, resp, cycStale, afterStale>>

\* lines 231-232: the command frame is written and the device answers
Write ==
    /\ pc = "write"
    /\ \/ /\ \E r \in Responses : pending' = r
          /\ resp' = pending'
          /\ pc' = "read1"
          /\ log' = Append(log, "write")
          /\ UNCHANGED cycFault
       \/ /\ Raise("except_read")
          /\ UNCHANGED <<pending, resp, log>>
    /\ UNCHANGED <<sensorVars, mainpc, result, localVars, rx>>
    /\ UNCHANGED <<appVars, handlerVars, runVars, cycStale, afterStale>>

\* bytes of the device's answer arrive while the thread sleeps or blocks
DeviceDeliver ==
    /\ pc \in WaitPcs
    /\ Len(pending) > 0
    /\ \E n \in {ChunkLen, Len(pending)} :
          /\ n <= Len(pending)
          /\ rx' = rx \o SubSeq(pending, 1, n)
          /\ pending' = SubSeq(pending, n + 1, Len(pending))
    /\ UNCHANGED <<sensorVars, mainpc, pc, result, localVars>>
    /\ UNCHANGED <<appVars, handlerVars, runVars, cycVars>>

AfterRead1(d) == IF Len(d) < MIN_RESPONSE_LEN THEN "read2" ELSE "parse"
AfterRead2(d) == IF Len(d) < MIN_RESPONSE_LEN THEN "short" ELSE "parse"

\* lines 233-235: sleep(0.1); data = read(in_waiting or 64)
Read1 ==
    /\ pc = "read1"
    /\ \/ /\ Len(rx) > 0
          /\ data' = Concat(<<>>, SubSeq(rx, 1, ReadSize))
          /\ rx' = <<>>
          /\ pc' = AfterRead1(data')
          /\ log' = Append(log, "read")
          /\ UNCHANGED cycFault
       \/ /\ Len(rx) = 0               \* read(64) with no timeout: blocks
          /\ pc' = "read1_block"
          /\ log' = Append(log, "read")
          /\ UNCHANGED <<data, rx, cycFault>>
       \/ /\ Raise("except_read")
          /\ UNCHANGED <<data, rx, log>>
    /\ UNCHANGED <<sensorVars, mainpc, result, reading, reset_ok, poll_i, warm_i, pending>>
    /\ UNCHANGED <<appVars, handlerVars, runVars, resp, cycStale, afterStale>>

Read1Block ==
    /\ pc = "read1_block"
    /\ \/ /\ Len(rx) >= READ_DEFAULT_SIZE
          /\ data' = Concat(<<>>, SubSeq(rx, 1, READ_DEFAULT_SIZE))
          /\ rx' = SubSeq(rx, READ_DEFAULT_SIZE + 1, Len(rx))
          /\ pc' = AfterRead1(data')
          /\ UNCHANGED cycFault
       \/ /\ Raise("except_read")
          /\ UNCHANGED <<data, rx>>
    /\ UNCHANGED <<sensorVars, mainpc, result, reading, reset_ok, poll_i, warm_i, pending>>
    /\ UNCHANGED <<appVars, handlerVars, runVars, log, resp, cycStale, afterStale>>

\* lines 236-239: the single retry
Read2 ==
    /\ pc = "read2"
    /\ \/ /\ Len(rx) > 0
          /\ data' = Concat(data, SubSeq(rx, 1, ReadSize))
          /\ rx' = <<>>
          /\ pc' = AfterRead2(data')
          /\ log' = Append(log, "read")
          /\ UNCHANGED cycFault
       \/ /\ Len(rx) = 0
          /\ pc' = "read2_block"
          /\ log' = Append(log, "read")
          /\ UNCHANGED <<data, rx, cycFault>>
       \/ /\ Raise("except_read")
          /\ UNCHANGED <<data, rx, log>>
    /\ UNCHANGED <<sensorVars, mainpc, result, reading, reset_ok, poll_i, warm_i, pending>>
    /\ UNCHANGED <<appVars, handlerVars, runVars, resp, cycStale, afterStale>>

Read2Block ==
    /\ pc = "read2_block"
    /\ \/ /\ Len(rx) >= READ_DEFAULT_SIZE
          /\ data' = Concat(data, SubSeq(rx, 1, READ_DEFAULT_SIZE))
          /\ rx' = SubSeq(rx, READ_DEFAULT_SIZE + 1, Len(rx))
          /\ pc' = AfterRead2(data')
          /\ UNCHANGED cycFault
       \/ /\ Raise("except_read")
          /\ UNCHANGED <<data, rx>>
    /\ UNCHANGED <<sensorVars, mainpc, result, reading, reset_ok, poll_i, warm_i, pending>>
    /\ UNCHANGED <<appVars, handlerVars, runVars, log, resp, cycStale, afterStale>>

\* Variant of ShortResponse: a short answer starts the recovery.
ShortResponseResets ==
    /\ pc = "short"
    /\ pc' = "stale_close"
    /\ UNCHANGED <<sensorVars, mainpc, result, localVars, linkVars>>
    /\ UNCHANGED <<appVars, handlerVars, runVars, cycVars>>

\* Variant of ShortResponse: a short answer starts the identical run afresh.
ShortResponseClearsRun ==
    /\ pc = "short"
    /\ stale_count' = 0
    /\ last_reading' = None
    /\ Returns(None, FALSE)
    /\ UNCHANGED <<mock, serial, mainpc, appVars, handlerVars, cycVars>>

\* lines 241-243: still short after the retry
ShortResponse ==
    /\ pc = "short"
    /\ Returns(None, FALSE)
    /\ UNCHANGED <<sensorVars, mainpc, appVars, handlerVars, cycVars>>

\* line 245: reading = _parse_response(data)
Parse ==
    /\ pc = "parse"
    /\ \/ /\ ParseError(data) = "ok"
          /\ reading' = Some(ParseFields(data))
          /\ pc' = "check_stale"
          /\ UNCHANGED cycFault
       \/ /\ ParseError(data) # "ok"
          /\ Raise("except_read")
          /\ UNCHANGED reading
    /\ resp' = <<>>
    /\ UNCHANGED <<sensorVars, mainpc, result, data, reset_ok, poll_i, warm_i, linkVars>>
    /\ UNCHANGED <<appVars, handlerVars, runVars, log, cycStale, afterStale>>

\* Variant of RealReadExcept: the exception leaves read() and ends the thread.
RealReadExceptReraise ==
    /\ pc = "except_read"
    /\ pc' = "thread_dead"
    /\ UNCHANGED <<sensorVars, mainpc, result, localVars, linkVars>>
    /\ UNCHANGED <<appVars, handlerVars, runVars, cycVars>>

\* lines 247-249: except Exception: return None
RealReadExcept ==
    /\ pc = "except_read"
    /\ Returns(None, FALSE)
    /\ UNCHANGED <<sensorVars, mainpc, appVars, handlerVars, cycVars>>

\* ------------------------------------------------------ Sensor._check_stale
\* Variant of CheckStale: a differing reading leaves the counter as it is.
CheckStaleNoReset ==
    /\ pc = "check_stale"
    /\ \/ /\ last_reading = reading
          /\ stale_count' = stale_count + 1
          /\ pc' = "threshold"
          /\ UNCHANGED <<last_reading, result, localVars, linkVars, runVars>>
       \/ /\ last_reading # reading
          /\ UNCHANGED stale_count
          /\ last_reading' = reading
          /\ Returns(reading, Alike)
    /\ UNCHANGED <<mock, serial, mainpc, appVars, handlerVars, cycVars>>

\* lines 202-203 and 223-226: compare with the stored prior reading
CheckStale ==
    /\ pc = "check_stale"
    /\ \/ /\ last_reading = reading
          /\ stale_count' = stale_count + 1
          /\ pc' = "threshold"
          /\ UNCHANGED <<last_reading, result, localVars, linkVars, runVars>>
       \/ /\ last_reading # reading
          /\ stale_count' = 0
          /\ last_reading' = reading
          /\ Returns(reading, Alike)
    /\ UNCHANGED <<mock, serial, mainpc, appVars, handlerVars, cycVars>>

\* line 204: if self._stale_count >= STALE_THRESHOLD
Threshold ==
    /\ pc = "threshold"
    /\ \/ /\ StaleReached(stale_count)
          /\ pc' = "stale_close"
          /\ cycStale' = TRUE
          /\ UNCHANGED <<result, localVars, linkVars, runVars>>
       \/ /\ ~StaleReached(stale_count)
          /\ Returns(reading, Alike)
          /\ UNCHANGED cycStale
    /\ UNCHANGED <<sensorVars, mainpc, appVars, handlerVars, log, resp, cycFault, afterStale>>

\* line 206: self.close()
StaleClose ==
    /\ pc = "stale_close"
    /\ serial' = IF serial = "open" THEN "closed" ELSE serial
    /\ log' = Append(log, "close")
    /\ pc' = "find"
    /\ UNCHANGED <<mock, last_reading, stale_count, mainpc, result, localVars, linkVars>>
    /\ UNCHANGED <<appVars, handlerVars, runVars, resp, cycStale, cycFault, afterStale>>

\* --------------------------------------------------------------- _usb_reset
\* lines 117-120: pci_addr = _find_usb_controller()
FindController ==
    /\ pc = "find"
    /\ \/ /\ pc' = "unbind"
          /\ log' = Append(log, "find")
          /\ UNCHANGED reset_ok
       \/ /\ pc' = "after_reset"       \* no controller: return False
          /\ reset_ok' = FALSE
          /\ log' = Append(log, "not_found")
    /\ UNCHANGED <<sensorVars, mainpc, result, data, reading, poll_i, warm_i, linkVars>>
    /\ UNCHANGED <<appVars, handlerVars, runVars, resp, cycStale, cycFault, afterStale>>

\* One sysfs directive or the modprobe call inside the try block (lines 123-140).
Directive(at, name, next) ==
    /\ pc = at
    /\ \/ /\ pc' = next
          /\ log' = Append(log, name)
          /\ UNCHANGED cycFault
       \/ /\ Raise("except_reset")
          /\ UNCHANGED log
    /\ UNCHANGED <<sensorVars, mainpc, result, localVars, linkVars>>
    /\ UNCHANGED <<appVars, handlerVars, runVars, resp, cycStale, afterStale>>

Unbind == Directive("unbind", "unbind", "rescan")
Rescan == Directive("rescan", "rescan", "bind")
Bind == Directive("bind", "bind", "modprobe")
Modprobe == Directive("modprobe", "modprobe", "new_id")

\* the new_id write without the inner try: OSError reaches the outer handler
NewIdFailureAborts ==
    /\ pc = "new_id"
    /\ \/ /\ pc' = "poll"
          /\ log' = Append(log, "new_id")
          /\ UNCHANGED cycFault
       \/ /\ Raise("except_reset")
          /\ log' = Append(log, "new_id_oserror")
    /\ UNCHANGED <<sensorVars, mainpc, result, localVars, linkVars>>
    /\ UNCHANGED <<appVars, handlerVars, runVars, resp, cycStale, afterStale>>

\* lines 141-145: the new_id write; OSError is swallowed
NewId ==
    /\ pc = "new_id"
    /\ pc' = "poll"
    /\ \/ log' = Append(log, "new_id")
       \/ log' = Append(log, "new_id_oserror")
    /\ UNCHANGED <<sensorVars, mainpc, result, localVars, linkVars>>
    /\ UNCHANGED <<appVars, handlerVars, runVars, resp, cycStale, cycFault, afterStale>>

\* the polling loop running one time too many
PollOnceMore ==
    /\ pc = "poll"
    /\ \/ /\ poll_i <= POLL_ATTEMPTS
          /\ poll_i' = poll_i + 1
          /\ \/ /\ reset_ok' = TRUE
                /\ pc' = "after_reset"
                /\ log' = Append(log, "poll_found")
             \/ UNCHANGED <<reset_ok, pc, log>>
       \/ /\ poll_i > POLL_ATTEMPTS
          /\ reset_ok' = FALSE
          /\ pc' = "after_reset"
          /\ UNCHANGED <<poll_i, log>>
    /\ UNCHANGED <<sensorVars, mainpc, result, data, reading, warm_i, linkVars>>
    /\ UNCHANGED <<appVars, handlerVars, runVars, resp, cycStale, cycFault, afterStale>>

\* lines 148-155: poll for /dev/ttyUSB*
Poll ==
    /\ pc = "poll"
    /\ \/ /\ poll_i < POLL_ATTEMPTS
          /\ poll_i' = poll_i + 1
          /\ \/ /\ reset_ok' = TRUE    \* glob finds the device: return True
                /\ pc' = "after_reset"
                /\ log' = Append(log, "poll_found")
             \/ UNCHANGED <<reset_ok, pc, log>>
       \/ /\ poll_i >= POLL_ATTEMPTS   \* loop exhausted: return False
          /\ reset_ok' = FALSE
          /\ pc' = "after_reset"
          /\ UNCHANGED <<poll_i, log>>
    /\ UNCHANGED <<sensorVars, mainpc, result, data, reading, warm_i, linkVars>>
    /\ UNCHANGED <<appVars, handlerVars, runVars, resp, cycStale, cycFault, afterStale>>

\* lines 156-158: except Exception: return False
ResetExcept ==
    /\ pc = "except_reset"
    /\ reset_ok' = FALSE
    /\ pc' = "after_reset"
    /\ UNCHANGED <<sensorVars, mainpc, result, data, reading, poll_i, warm_i, linkVars>>
    /\ UNCHANGED <<appVars, handlerVars, runVars, cycVars>>

\* Variant of AfterReset: a failed reset is tried again.
AfterResetRetry ==
    /\ pc = "after_reset"
    /\ pc' = IF reset_ok THEN "reopen" ELSE "find"
    /\ poll_i' = 0
    /\ UNCHANGED <<sensorVars, mainpc, result, data, reading, reset_ok, warm_i, linkVars>>
    /\ UNCHANGED <<appVars, handlerVars, runVars, cycVars>>

\* line 207: if _usb_reset():
AfterReset ==
    /\ pc = "after_reset"
    /\ pc' = IF reset_ok THEN "reopen" ELSE "stale_clear"
    /\ poll_i' = 0
    /\ UNCHANGED <<sensorVars, mainpc, result, data, reading, reset_ok, warm_i, linkVars>>
    /\ UNCHANGED <<appVars, handlerVars, runVars, cycVars>>

\* line 209: self._open_serial()
Reopen ==
    /\ pc = "reopen"
    /\ \/ /\ serial' = "open"
          /\ rx' = <<>>
          /\ pending' = <<>>
          /\ log' = Append(log, "open")
          /\ pc' = "warm_flush"
          /\ UNCHANGED cycFault
       \/ /\ Raise("except_reopen")    \* serial.Serial raises
          /\ UNCHANGED <<serial, rx, pending, log>>
    /\ UNCHANGED <<mock, last_reading, stale_count, mainpc, result, localVars>>
    /\ UNCHANGED <<appVars, handlerVars, runVars, resp, cycStale, afterStale>>

\* lines 211-216: the warm-up round-trips
WarmFlush ==
    /\ pc = "warm_flush"
    /\ \/ /\ rx' = <<>>
          /\ log' = Append(log, "warm_flush")
          /\ pc' = "warm_write"
          /\ UNCHANGED cycFault
       \/ /\ Raise("except_reopen")
          /\ UNCHANGED <<rx, log>>
    /\ UNCHANGED <<sensorVars, mainpc, result, localVars, pending>>
    /\ UNCHANGED <<appVars, handlerVars, runVars, resp, cycStale, afterStale>>

WarmWrite ==
    /\ pc = "warm_write"
    /\ \/ /\ \E r \in WarmResponses : pending' = r
          /\ log' = Append(log, "warm_write")
          /\ pc' = "warm_read"
          /\ UNCHANGED cycFault
       \/ /\ Raise("except_reopen")
          /\ UNCHANGED <<pending, log>>
    /\ UNCHANGED <<sensorVars, mainpc, result, localVars, rx>>
    /\ UNCHANGED <<appVars, handlerVars, runVars, resp, cycStale, afterStale>>

\* the warm-up loop one round short
WarmNextOneShort == IF warm_i + 1 >= WARMUP_READS - 1 THEN "stale_clear" ELSE "warm_flush"

\* the end of one warm-up round: the bytes read are dropped
WarmNext == IF warm_i + 1 >= WARMUP_READS THEN "stale_clear" ELSE "warm_flush"

WarmRead ==
    /\ pc = "warm_read"
    /\ \/ /\ Len(rx) > 0
          /\ rx' = <<>>
          /\ warm_i' = warm_i + 1
          /\ pc' = WarmNext
          /\ log' = Append(log, "warm_read")
          /\ UNCHANGED cycFault
       \/ /\ Len(rx) = 0
          /\ pc' = "warm_read_block"
          /\ log' = Append(log, "warm_read")
          /\ UNCHANGED <<rx, warm_i, cycFault>>
       \/ /\ Raise("except_reopen")
          /\ UNCHANGED <<rx, warm_i, log>>
    /\ UNCHANGED <<sensorVars, mainpc, result, data, reading, reset_ok, poll_i, pending>>
    /\ UNCHANGED <<appVars, handlerVars, runVars, resp, cycStale, afterStale>>

WarmReadBlock ==
    /\ pc = "warm_read_block"
    /\ \/ /\ Len(rx) >= READ_DEFAULT_SIZE
          /\ rx' = SubSeq(rx, READ_DEFAULT_SIZE + 1, Len(rx))
          /\ warm_i' = warm_i + 1
          /\ pc' = WarmNext
          /\ UNCHANGED cycFault
       \/ /\ Raise("except_reopen")
          /\ UNCHANGED <<rx, warm_i>>
    /\ UNCHANGED <<sensorVars, mainpc, result, data, reading, reset_ok, poll_i, pending>>
    /\ UNCHANGED <<appVars, handlerVars, runVars, log, resp, cycStale, afterStale>>

\* lines 218-219: except Exception: logged, execution continues at line 220
ReopenExcept ==
    /\ pc = "except_reopen"
    /\ pc' = "stale_clear"
    /\ UNCHANGED <<sensorVars, mainpc, result, localVars, linkVars>>
    /\ UNCHANGED <<appVars, handlerVars, runVars, cycVars>>

\* Variant of StaleClear: the stored prior reading survives the recovery.
StaleClearKeepsPrior ==
    /\ pc = "stale_clear"
    /\ stale_count' = 0
    /\ UNCHANGED last_reading
    /\ Returns(None, Alike)
    /\ UNCHANGED <<mock, serial, mainpc, appVars, handlerVars, cycVars>>

\* lines 220-222: clear the detector and return None
StaleClear ==
    /\ pc = "stale_clear"
    /\ stale_count' = 0
    /\ last_reading' = None
    /\ Returns(None, Alike)
    /\ UNCHANGED <<mock, serial, mainpc, appVars, handlerVars, cycVars>>

\* -------------------------------------------------------------- sensor_loop
\* Variant of LoopGot: the result is published without the test of line 31.
LoopGotNoTest ==
    /\ pc = "loop_got"
    /\ pc' = "acquire"
    /\ log' = <<>>
    /\ resp' = <<>>
    /\ cycStale' = FALSE
    /\ cycFault' = FALSE
    /\ afterStale' = (cycStale \/ (afterStale /\ result = None))
    /\ UNCHANGED <<sensorVars, mainpc, result, localVars, linkVars>>
    /\ UNCHANGED <<appVars, handlerVars, runVars>>

\* line 31: if data:  (the history of the call is closed here)
LoopGot ==
    /\ pc = "loop_got"
    /\ pc' = IF result # None THEN "acquire" ELSE "sleep"
    /\ log' = <<>>
    /\ resp' = <<>>
    /\ cycStale' = FALSE
    /\ cycFault' = FALSE
    /\ afterStale' = (cycStale \/ (afterStale /\ result = None))
    /\ UNCHANGED <<sensorVars, mainpc, result, localVars, linkVars>>
    /\ UNCHANGED <<appVars, handlerVars, runVars>>

\* line 32: with _latest_lock:
LoopAcquire ==
    /\ pc = "acquire"
    /\ lock = "free"
    /\ lock' = "loop"
    /\ pc' = "assign"
    /\ UNCHANGED <<sensorVars, mainpc, result, localVars, linkVars>>
    /\ UNCHANGED <<latest, db, handlerVars, runVars, cycVars>>

\* the assignment of line 33 without the release at the end of the with block
LoopAssignHoldsLock ==
    /\ pc = "assign"
    /\ latest' = result
    /\ pc' = "insert"
    /\ UNCHANGED <<sensorVars, mainpc, result, localVars, linkVars>>
    /\ UNCHANGED <<lock, db, handlerVars, runVars, cycVars>>

\* line 33 and the end of the with block
LoopAssign ==
    /\ pc = "assign"
    /\ latest' = result
    /\ lock' = "free"
    /\ pc' = "insert"
    /\ UNCHANGED <<sensorVars, mainpc, result, localVars, linkVars>>
    /\ UNCHANGED <<db, handlerVars, runVars, cycVars>>

\* lines 34-37: insert_reading(data), its exception caught; data is not used again
LoopInsert ==
    /\ pc = "insert"
    /\ \/ db' = result
       \/ UNCHANGED db
    /\ result' = None
    /\ pc' = "sleep"
    /\ UNCHANGED <<sensorVars, mainpc, localVars, linkVars>>
    /\ UNCHANGED <<latest, lock, handlerVars, runVars, cycVars>>

\* line 38: time.sleep(interval)
LoopSleep ==
    /\ pc = "sleep"
    /\ pc' = "call"
    /\ UNCHANGED <<sensorVars, mainpc, result, localVars, linkVars>>
    /\ UNCHANGED <<appVars, handlerVars, runVars, cycVars>>

\* --------------------------------------------------------------- api_latest
\* lines 48-49: a request for /api/latest reaches its handler
ApiRequest(h) ==
    /\ mainpc = "running"
    /\ hpc[h] = "idle"
    /\ hpc' = [hpc EXCEPT ![h] = "wait"]
    /\ UNCHANGED <<sensorVars, mainpc, pc, result, localVars, linkVars>>
    /\ UNCHANGED <<appVars, hdata, runVars, cycVars>>

\* line 50: with _latest_lock:
ApiAcquire(h) ==
    /\ hpc[h] = "wait"
    /\ lock = "free"
    /\ lock' = h
    /\ hpc' = [hpc EXCEPT ![h] = "locked"]
    /\ UNCHANGED <<sensorVars, mainpc, pc, result, localVars, linkVars>>
    /\ UNCHANGED <<latest, db, hdata, runVars, cycVars>>

\* line 51 and the end of the with block
ApiRead(h) ==
    /\ hpc[h] = "locked"
    /\ hdata' = [hdata EXCEPT ![h] = latest]
    /\ lock' = "free"
    /\ hpc' = [hpc EXCEPT ![h] = "check"]
    /\ UNCHANGED <<sensorVars, mainpc, pc, result, localVars, linkVars>>
    /\ UNCHANGED <<latest, db, runVars, cycVars>>

\* Variant of ApiRespond: with an empty slot the handler reads the sensor itself.
ApiRespondReadsSensor(h) ==
    /\ hpc[h] = "check"
    /\ hdata' = [hdata EXCEPT ![h] = None]
    /\ hpc' = [hpc EXCEPT ![h] = IF hdata[h] = None THEN "in_sensor" ELSE "idle"]
    /\ UNCHANGED <<sensorVars, mainpc, pc, result, localVars, linkVars>>
    /\ UNCHANGED <<appVars, runVars, cycVars>>

\* lines 52-56: fall back to the database, then answer
ApiRespond(h) ==
    /\ hpc[h] = "check"
    /\ hdata' = [hdata EXCEPT ![h] = None]
    /\ hpc' = [hpc EXCEPT ![h] = "idle"]
    /\ UNCHANGED <<sensorVars, mainpc, pc, result, localVars, linkVars>>
    /\ UNCHANGED <<appVars, runVars, cycVars>>

\* ---------------------------------------------------------------- the system
SensorStep ==
    \/ LoopCall \/ MockRead \/ Flush \/ Write \/ Read1 \/ Read1Block \/ Read2 \/ Read2Block
    \/ ShortResponse \/ Parse \/ RealReadExcept \/ CheckStale \/ Threshold \/ StaleClose
    \/ FindController \/ Unbind \/ Rescan \/ Bind \/ Modprobe \/ NewId \/ Poll \/ ResetExcept
    \/ AfterReset \/ Reopen \/ WarmFlush \/ WarmWrite \/ WarmRead \/ WarmReadBlock
    \/ ReopenExcept \/ StaleClear
    \/ LoopGot \/ LoopAcquire \/ LoopAssign \/ LoopInsert \/ LoopSleep

Next ==
    \/ MainOpen \/ MainStart
    \/ SensorStep
    \/ DeviceDeliver
    \/ \E h \in Handlers : ApiRequest(h) \/ ApiAcquire(h) \/ ApiRead(h) \/ ApiRespond(h)

Spec == Init /\ [][Next]_vars

\* The handler threads and the one assignment under the lock always get to run:
\* none of these steps waits for anything but the lock, and a waiting acquire is
\* served when the lock is released.  The sensor cycle itself may stop anywhere.
FairSpec ==
    /\ Spec
    /\ WF_vars(LoopAssign)
    /\ \A h \in Handlers :
          SF_vars(ApiAcquire(h)) /\ WF_vars(ApiRead(h)) /\ WF_vars(ApiRespond(h))


\* ------------------------------------------------------------ reading the state
Count(seq, x) == Cardinality({i \in DOMAIN seq : seq[i] = x})

RecoveryPcs ==
    {"stale_close", "find", "unbind", "rescan", "bind", "modprobe", "new_id", "poll",
     "except_reset", "after_reset", "reopen", "warm_flush", "warm_write", "warm_read",
     "warm_read_block", "except_reopen", "stale_clear"}

\* the positions of the sensor_loop thread inside sensor.read()
CyclePcs ==
    {"mock_read", "flush", "write", "read1", "read1_block", "read2", "read2_block", "short",
     "parse", "except_read", "check_stale", "threshold"} \cup RecoveryPcs

\* its positions in sensor_loop outside the call
LoopPcs == {"not_started", "call", "loop_got", "acquire", "assign", "insert", "sleep"}

RecoveryOps ==
    {"close", "find", "not_found", "unbind", "rescan", "bind", "modprobe", "new_id",
     "new_id_oserror", "poll_found", "open", "warm_flush", "warm_write", "warm_read"}

\* _usb_reset was called in the current call
ResetInvoked == Count(log, "find") + Count(log, "not_found") = 1

\* the execution contexts that are inside a method of the Sensor
InSensor ==
    (IF pc \in CyclePcs THEN {"sensor_loop"} ELSE {})
        \cup {h \in Handlers : hpc[h] = "in_sensor"}

\* ------------------------------------------------------------------- claims
\* C1 as stated: on a fresh session whose every answer is the same valid frame,
\* calls 1..9 return a Reading and call 10 runs the USB reset and returns None.
C1_StaleAtTenthCall ==
    (uniform /\ pc = "loop_got") =>
        /\ nReads \in 1..9 => result # None
        /\ nReads = 10 => (result = None /\ cycStale /\ ResetInvoked)

\* C1 amended: on a fresh session whose every answer is the same valid frame,
\* calls 1..10 each return the decoded Reading without any recovery step, and
\* call 11 runs the USB reset and returns None.
C1_StaleAtEleventhCall ==
    (uniform /\ pc = "loop_got") =>
        /\ nReads \in 1..10 =>
              /\ result = Some(ParseFields(refData))
              /\ ~cycStale
              /\ \A i \in DOMAIN log : log[i] \notin RecoveryOps
        /\ nReads = 11 => (result = None /\ cycStale /\ ResetInvoked)

C1_Witness ==
    uniform /\ pc = "loop_got" /\ nReads = 11 /\ result = None /\ cycStale /\ ResetInvoked

\* C2: when a call that signalled Stale returns, the counter is 0 and the stored
\* prior reading is empty, whatever the recovery did; they stay so until the next
\* reading is decoded, and that reading is returned (Fresh) and becomes the prior.
C2_StaleClearsDetector ==
    /\ (pc = "loop_got" /\ cycStale) =>
          (stale_count = 0 /\ last_reading = None /\ result = None)
    /\ (afterStale /\ pc # "loop_got") =>
          (stale_count = 0 /\ last_reading = None /\ pc \notin RecoveryPcs \cup {"threshold"})
    /\ (afterStale /\ pc = "loop_got" /\ result # None) =>
          (stale_count = 0 /\ last_reading = result /\ ~cycStale)

\* the 12th call of a run of identical answers: Fresh again after the recovery
C2_Witness ==
    afterStale /\ pc = "loop_got" /\ uniform /\ nReads = 12
        /\ result = Some(ParseFields(refData))

\* C3 as stated: when a call that signalled Stale returns, the link is open
\* (reopened or the previous one), so the next call can read from the device.
C3_LinkOpenAfterRecovery ==
    (pc = "loop_got" /\ cycStale) => serial = "open"

\* C4: an exception raised in a read cycle (link I/O, closed port, decode, reset,
\* reopen, warm-up) never ends the sensor_loop thread: the call returns None and
\* the loop goes on to its sleep and to its next call.
C4_FaultsNeverEscape ==
    /\ [](/\ pc \in LoopPcs \cup CyclePcs
          /\ (pc = "loop_got" /\ cycFault) => result = None
          /\ pc \in {"except_read", "except_reset", "except_reopen"} => cycFault)
    /\ [][(pc = "loop_got" /\ result = None /\ pc' # pc) => pc' = "sleep"]_vars
    /\ [][(pc = "sleep" /\ pc' # pc) => pc' = "call"]_vars

\* a fault inside the recovery of a Stale call, the call returned
C4_Witness ==
    pc = "loop_got" /\ cycFault /\ cycStale /\ result = None

\* C5: a call that signalled Stale closes the link once, calls _usb_reset once,
\* issues at most one unbind and reopens the link at most once, and returns None.
C5_OneRecoveryAttempt ==
    cycStale =>
        /\ Count(log, "close") <= 1
        /\ Count(log, "find") + Count(log, "not_found") <= 1
        /\ Count(log, "unbind") <= 1
        /\ Count(log, "open") <= 1
        /\ pc = "loop_got" => (result = None /\ Count(log, "close") = 1 /\ ResetInvoked)

C5_Witness ==
    pc = "loop_got" /\ cycStale /\ result = None
        /\ Count(log, "unbind") = 1 /\ Count(log, "open") = 1

\* C6: outside a call that signalled Stale no recovery step runs: the thread is at
\* no position of the recovery, no close, directive, reopen or warm-up operation
\* was issued, and a link that was open when the call began is still open.
C6_RecoveryOnlyWhenStale ==
    ~cycStale =>
        /\ pc \notin RecoveryPcs
        /\ \A i \in DOMAIN log : log[i] \notin RecoveryOps
        /\ Count(log, "flush") = 1 => serial = "open"

\* a ShortResponse call returned: no fault, no Stale, the link still open
C6_Witness ==
    pc = "loop_got" /\ ~cycStale /\ ~cycFault /\ result = None
        /\ Count(log, "read") = 2 /\ serial = "open"

\* C7: the staleness check adds exactly one to the counter for a reading equal to
\* the stored prior and keeps the prior; for any other reading (also with no
\* prior) it sets the counter to 0, stores the reading and returns it; Stale is
\* signalled only with the counter at the threshold, and below it the reading is
\* returned.
C7_StalenessCounting ==
    [][/\ (pc = "check_stale" /\ pc' # pc) =>
             IF last_reading = reading
             THEN /\ stale_count' = stale_count + 1
                  /\ last_reading' = last_reading
                  /\ pc' = "threshold"
             ELSE /\ stale_count' = 0
                  /\ last_reading' = reading
                  /\ result' = reading
                  /\ pc' = "loop_got"
       /\ (cycStale' /\ ~cycStale) => (pc = "threshold" /\ stale_count = STALE_THRESHOLD)
       /\ (pc = "threshold" /\ pc' # pc /\ stale_count < STALE_THRESHOLD) =>
             (~cycStale' /\ pc' = "loop_got" /\ result' = reading)
      ]_vars

\* Stale signalled in a run that was interrupted before (the calls were not all alike)
C7_Witness ==
    pc = "stale_close" /\ cycStale /\ stale_count = STALE_THRESHOLD /\ ~uniform

\* C8 as stated: a call on an open link makes at most two reads and then returns;
\* it is never inside a read that the device's answer cannot complete.
C8_CycleTerminates ==
    /\ Count(log, "read") <= 2
    /\ pc = "short" => Len(data) < MIN_RESPONSE_LEN
    /\ ~(/\ pc \in {"read1_block", "read2_block"}
         /\ Len(rx) + Len(pending) < READ_DEFAULT_SIZE)

\* C9: after a short first read and the retry, the buffer handed to the decoder is
\* the device's answer in arrival order, and it decodes as the answer itself does.
C9_SplitFrameDecodes ==
    (pc = "parse" /\ Count(log, "read") = 2) =>
        /\ data = SubSeq(resp, 1, Len(data))
        /\ ParseError(resp) = "ok" =>
              (ParseError(data) = "ok" /\ ParseFields(data) = ParseFields(resp))

\* a valid 30-byte frame that arrived in two reads
C9_Witness ==
    pc = "parse" /\ Count(log, "read") = 2 /\ resp = FrameA /\ data = FrameA

\* C10: at most one execution context is inside the Sensor at any moment: only
\* the sensor_loop thread, started after main's open(); no handler ever is.
C10_NoOverlappingReads ==
    /\ Cardinality(InSensor) <= 1
    /\ InSensor \subseteq {"sensor_loop"}
    /\ mainpc # "running" => pc = "not_started"

\* a handler holds the slot's lock while the thread is in the recovery
C10_Witness ==
    pc \in RecoveryPcs /\ \E h \in Handlers : hpc[h] = "locked"


\* ------------------------------------------- the pure functions on their own
\* Buffers for _parse_response: every mix of length, header bytes, field bytes
\* (offsets 8..27) and of the bytes around the fields.
BufLens == {0, 1, 2, 8, 29, MIN_RESPONSE_LEN, MIN_RESPONSE_LEN + 1, MaxBufLen}
HeaderBytes == {HDR0, HDR1, 0}
FieldFills == {<<0, 0>>, <<0, 255>>, <<0, 128>>, <<37, 1>>, <<91, 200>>}
PadBytes == {0, 255}

Buffer(n, h0, h1, fill, pad) ==
    [i \in 1..n |->
        IF i = 1 THEN h0
        ELSE IF i = 2 THEN h1
        ELSE IF i - 1 \in UnpackBytes THEN (i * fill[1] + fill[2]) % 256
        ELSE pad]

ParseInputs ==
    {Buffer(n, h0, h1, fill, pad) :
        n \in BufLens, h0 \in HeaderBytes, h1 \in HeaderBytes,
        fill \in FieldFills, pad \in PadBytes}

\* Byte strings for _calc_crc: the command body, the catalogue's check string
\* "123456789", and short strings.
CheckString == <<49, 50, 51, 52, 53, 54, 55, 56, 57>>
CrcInputs == {CommandBody, CheckString, <<>>, <<0>>, <<255>>, <<255, 255>>}

\* One call of one function on a fresh argument; the program is not running.
CodecInit ==
    /\ \/ pc = "parse_len" /\ data \in ParseInputs
       \/ pc = "calc_crc" /\ data \in CrcInputs
       \/ pc = "build_read_command" /\ data = <<>>
    /\ mock = FALSE
    /\ serial = "none"
    /\ last_reading = None
    /\ stale_count = 0
    /\ mainpc = "open"
    /\ result = None
    /\ reading = None
    /\ reset_ok = FALSE
    /\ poll_i = 0
    /\ warm_i = 0
    /\ rx = <<>>
    /\ pending = <<>>
    /\ latest = None
    /\ lock = "free"
    /\ db = None
    /\ hpc = [h \in Handlers |-> "idle"]
    /\ hdata = [h \in Handlers |-> None]
    /\ nReads = 0
    /\ refData = <<>>
    /\ uniform = TRUE
    /\ log = <<>>
    /\ resp = <<>>
    /\ cycStale = FALSE
    /\ cycFault = FALSE
    /\ afterStale = FALSE

codecFrame == <<sensorVars, mainpc, data, reset_ok, poll_i, warm_i, linkVars,
                appVars, handlerVars, runVars, resp, cycStale, cycFault, afterStale>>

\* the function without its length check
ParseLenSkipped ==
    /\ pc = "parse_len"
    /\ log' = Append(log, "len")
    /\ pc' = "parse_hdr"
    /\ UNCHANGED <<codecFrame, result, reading>>

\* lines 62-63: if len(data) < 30: raise ValueError
ParseLen ==
    /\ pc = "parse_len"
    /\ log' = Append(log, "len")
    /\ pc' = IF Len(data) < MIN_RESPONSE_LEN THEN "raised_short" ELSE "parse_hdr"
    /\ UNCHANGED <<codecFrame, result, reading>>

\* lines 65-66: data[0] and, when it matches, data[1]; indexing past the end of
\* the buffer raises IndexError
ParseHdr ==
    /\ pc = "parse_hdr"
    /\ log' = Append(log, "hdr")
    /\ pc' = IF Len(data) < 1 THEN "raised_index"
             ELSE IF data[1] # HDR0 THEN "raised_header"
             ELSE IF Len(data) < 2 THEN "raised_index"
             ELSE IF data[2] # HDR1 THEN "raised_header"
             ELSE "parse_unpack"
    /\ UNCHANGED <<codecFrame, result, reading>>

\* lines 68-98: the unpack_from calls (struct.error when the buffer is too
\* short for one of them) and the returned dict
ParseUnpack ==
    /\ pc = "parse_unpack"
    /\ log' = Append(log, "unpack")
    /\ IF UnpackBytes \subseteq 0..(Len(data) - 1)
       THEN /\ reading' = Some(ParseFields(data))
            /\ result' = Some(ParseFields(data))
            /\ pc' = "parsed"
       ELSE /\ pc' = "raised_struct"
            /\ UNCHANGED <<result, reading>>
    /\ UNCHANGED codecFrame

\* _calc_crc(data)
CalcCrcCall ==
    /\ pc = "calc_crc"
    /\ result' = CalcCrc(data)
    /\ pc' = "crc_done"
    /\ UNCHANGED <<codecFrame, reading, log>>

\* _build_read_command(), called again and again
BuildReadCommandCall ==
    /\ pc \in {"build_read_command", "command_built"}
    /\ nReads < MaxReads
    /\ result' = BuildReadCommand
    /\ nReads' = nReads + 1
    /\ pc' = "command_built"
    /\ UNCHANGED <<sensorVars, mainpc, localVars, linkVars, appVars, handlerVars>>
    /\ UNCHANGED <<refData, uniform, cycVars>>

CodecNext ==
    \/ ParseLen
    \/ ParseHdr
    \/ ParseUnpack
    \/ CalcCrcCall
    \/ BuildReadCommandCall

CodecSpec == CodecInit /\ [][CodecNext]_vars

\* C11: the polling thread holds the slot's lock only at the assignment that
\* publishes a Reading, never inside sensor.read(), the recovery, the insert or
\* the sleep; a handler waiting for the lock gets it and answers, also while the
\* thread is in (or stopped in) a recovery.
C11_ReaderNeverBlocked ==
    /\ [](lock = "loop" <=> pc = "assign")
    /\ \A h \in Handlers : (hpc[h] = "wait") ~> (hpc[h] = "idle")

\* a handler has the lock while the thread is inside the USB reset
C11_Witness ==
    pc \in {"unbind", "rescan", "bind", "poll"} /\ \E h \in Handlers : lock = h

\* where a call of _parse_response ends
ParseDone == {"raised_short", "raised_header", "raised_index", "raised_struct", "parsed"}

\* C12: _parse_response rejects every buffer shorter than 30 bytes and every
\* buffer not starting 0x52 0x42; it looks at the header only after the length
\* check has passed; for an accepted buffer it reads offsets 8..27 only; it never
\* indexes outside the buffer.
C12_DecodeStaysInsideBuffer ==
    /\ pc \notin {"raised_index", "raised_struct"}
    /\ pc = "parse_hdr" => Len(data) >= 30 /\ log = <<"len">>
    /\ pc = "raised_short" => log = <<"len">>
    /\ pc \in ParseDone /\ Len(data) < 30 => pc = "raised_short"
    /\ pc \in ParseDone /\ ~(Len(data) >= 2 /\ data[1] = 82 /\ data[2] = 66)
          => pc \in {"raised_short", "raised_header"}
    /\ pc = "parsed" =>
          /\ Len(data) >= 30 /\ data[1] = 82 /\ data[2] = 66
          /\ UnpackBytes = 8..27
          /\ UnpackBytes \subseteq 0..(Len(data) - 1)
    /\ pc \in ParseDone =>
          ParseError(data) = (CASE pc = "raised_short" -> "short"
                                [] pc = "raised_header" -> "header"
                                [] pc = "parsed" -> "ok"
                                [] OTHER -> "fault")

\* a 29-byte buffer with a valid header is turned away by the length check
C12_Witness ==
    /\ pc = "raised_short"
    /\ Len(data) = 29
    /\ data[1] = 82 /\ data[2] = 66

\* C13: _build_read_command returns the same 9 bytes at every call, 52 42 05 00
\* 01 21 50 and the CRC-16/MODBUS of these 7 bytes, low byte first (e2 4b);
\* _calc_crc keeps its register within 16 bits after every byte and every
\* shift, returns two bytes in 0..255, and gives the reference CRC-16/MODBUS
\* value (0x4B37 for the check string "123456789").
C13_CommandFrame ==
    /\ pc = "command_built" => result = <<82, 66, 5, 0, 1, 33, 80, 226, 75>>
    /\ pc = "crc_done" =>
          /\ Len(result) = 2 /\ result[1] \in 0..255 /\ result[2] \in 0..255
          /\ \A k \in 1..Len(data) : \A n \in 0..8 :
                CrcShifts(Xor(CrcFold(data, k - 1), data[k]), n) \in 0..65535
          /\ data = <<82, 66, 5, 0, 1, 33, 80>> => result = <<226, 75>>
          /\ data = <<49, 50, 51, 52, 53, 54, 55, 56, 57>> => result = <<55, 75>>
          /\ data = <<>> => result = <<255, 255>>
          /\ data = <<0>> => result = <<191, 64>>
          /\ data = <<255>> => result = <<255, 0>>

\* the frame has been built more than once
C13_Witness == pc = "command_built" /\ nReads >= 2

\* C14: for a buffer of at least 30 bytes with a valid header the decoded
\* fields are the little-endian integers at the documented offsets:
\* temperature (8-9) and heat stroke (26-27) signed 16-bit, humidity (10-11),
\* light (12-13), noise (18-19), eTVOC (20-21), eCO2 (22-23), discomfort (24-25)
\* unsigned 16-bit, pressure (14-17) unsigned 32-bit; bytes 2..7 and the bytes
\* from offset 28 on make no difference.
C14_FieldsAtDocumentedOffsets ==
    pc = "parsed" =>
        LET r == result[1]
            B(o) == data[o + 1]
            Le16(o) == B(o) + 256 * B(o + 1)
            Sg16(o) == IF B(o + 1) >= 128 THEN Le16(o) - 65536 ELSE Le16(o)
        IN  /\ r.temperature = Sg16(8)
            /\ r.humidity = Le16(10)
            /\ r.light = Le16(12)
            /\ r.pressure = <<Le16(16), Le16(14)>>
            /\ r.noise = Le16(18)
            /\ r.etvoc = Le16(20)
            /\ r.eco2 = Le16(22)
            /\ r.discomfort = Le16(24)
            /\ r.heat_stroke = Sg16(26)
            /\ \A d2 \in ParseInputs :
                  (/\ Len(d2) >= 30 /\ d2[1] = 82 /\ d2[2] = 66
                   /\ \A o \in 8..27 : d2[o + 1] = B(o))
                  => ParseFields(d2) = r

\* a buffer longer than 30 bytes, 0xFF around the fields, negative temperature
C14_Witness ==
    /\ pc = "parsed"
    /\ Len(data) > 30
    /\ data[3] = 255 /\ data[31] = 255
    /\ result[1].temperature < 0
    /\ result[1].pressure[1] > 0

\* C15: when the write to ftdi_sio/new_id fails (already registered) the reset
\* goes on to poll for the device path as if the write had succeeded: no
\* exception handler is entered, no fault is recorded for it, and whether the
\* reset succeeds is decided by the polls alone.
C15_RegistrationFailureIgnored ==
    Count(log, "new_id_oserror") > 0 =>
        /\ pc # "except_reset"
        /\ pc \in {"poll", "after_reset"} => ~cycFault
        /\ pc = "after_reset" =>
              /\ reset_ok <=> Count(log, "poll_found") = 1
              /\ ~reset_ok => poll_i = 10

\* a recovery whose registration failed ends with the link reopened and the
\* three warm-up reads done
C15_Witness ==
    /\ pc = "loop_got"
    /\ Count(log, "new_id_oserror") = 1
    /\ Count(log, "warm_read") = 3
    /\ serial = "open"

\* position of the first x in seq, 0 when there is none
Pos(seq, x) ==
    IF Count(seq, x) = 0 THEN 0
    ELSE CHOOSE i \in DOMAIN seq : seq[i] = x /\ \A j \in 1..(i - 1) : seq[j] # x

\* x, when in seq, comes after an earlier y
Follows(seq, x, y) == Pos(seq, x) > 0 => Pos(seq, y) > 0 /\ Pos(seq, y) < Pos(seq, x)

\* C16: the recovery locates the controller first (and issues no unbind, rescan
\* or bind when there is none), then closes the link, then unbinds, rescans,
\* binds, registers the driver, polls, reopens and warms up: the link is closed
\* only after a controller was located, and is closed when unbind is issued.
C16_RecoveryStepOrder ==
    /\ Follows(log, "close", "find")
    /\ Follows(log, "unbind", "close")
    /\ Follows(log, "rescan", "unbind")
    /\ Follows(log, "bind", "rescan")
    /\ Follows(log, "modprobe", "bind")
    /\ Follows(log, "new_id", "modprobe")
    /\ Follows(log, "new_id_oserror", "modprobe")
    /\ Follows(log, "poll_found", "modprobe")
    /\ Follows(log, "open", "poll_found")
    /\ Follows(log, "warm_flush", "open")
    /\ Count(log, "not_found") > 0 =>
          Count(log, "unbind") + Count(log, "rescan") + Count(log, "bind") = 0
    /\ pc = "rescan" => serial # "open"

\* C17: after the directives the reset looks for the device path at most 10
\* times; polling stops at the first poll that finds it and only then is the
\* link reopened; when none of the 10 polls finds it the reset has failed and
\* the link is not reopened.
C17_PollingBounded ==
    /\ poll_i \in 0..10
    /\ pc = "poll" => Count(log, "poll_found") = 0 /\ Count(log, "open") = 0
    /\ pc = "after_reset" /\ Pos(log, "modprobe") > 0 =>
          /\ reset_ok <=> Count(log, "poll_found") = 1
          /\ ~reset_ok => poll_i = 10
          /\ poll_i \in 1..10
    /\ pc \in {"reopen", "warm_flush", "warm_write", "warm_read", "warm_read_block",
               "except_reopen"} => Count(log, "poll_found") = 1
    /\ Follows(log, "open", "poll_found")

\* all 10 polls have found nothing
C17_Witness ==
    /\ pc = "after_reset"
    /\ poll_i = 10
    /\ ~reset_ok
    /\ Pos(log, "modprobe") > 0

\* the warm-up calls of the current call, in the order made
WarmSteps ==
    LET IsWarm(x) == x \in {"warm_flush", "warm_write", "warm_read"}
    IN  SelectSeq(log, IsWarm)

WarmPcs == {"warm_flush", "warm_write", "warm_read", "warm_read_block"}

\* C18 as stated: whenever the link was reopened in a recovery, three warm-up
\* reads have been made when the call returns.
C18_ThreeWarmupsWheneverReopened ==
    pc = "loop_got" /\ Count(log, "open") = 1 => Count(log, "warm_read") = 3

\* C18 amended: after a reopen the warm-up makes its calls in rounds of flush,
\* write, read, three rounds at most; the call returns after the third round or
\* after a warm-up call has raised, and returns None with the detector cleared;
\* the warm-up leaves the staleness counter, the stored prior and the decoded
\* reading alone; without a reopen there is no warm-up call.
C18_WarmupRounds ==
    /\ Len(WarmSteps) <= 9
    /\ \A i \in DOMAIN WarmSteps :
          WarmSteps[i] = <<"warm_flush", "warm_write", "warm_read">>[((i - 1) % 3) + 1]
    /\ Count(log, "open") = 0 => Len(WarmSteps) = 0 /\ pc \notin WarmPcs
    /\ pc \in WarmPcs =>
          /\ stale_count = 10
          /\ last_reading = reading /\ reading # None
          /\ result = None
    /\ pc = "loop_got" /\ Count(log, "open") = 1 =>
          /\ Len(WarmSteps) = 9 \/ cycFault
          /\ result = None
          /\ stale_count = 0 /\ last_reading = None

\* the call has returned after three full warm-up rounds
C18_Witness ==
    /\ pc = "loop_got"
    /\ Len(WarmSteps) = 9
    /\ ~cycFault

\* the positions of _real_read ahead of the call of _check_stale
PreCheckPcs ==
    {"flush", "write", "read1", "read1_block", "read2", "read2_block", "short", "parse",
     "except_read"}

\* C19: no step of _real_read ahead of _check_stale touches the counter or the
\* stored prior, and a call that returns None without a recovery returns from
\* one of those steps (short answer, or a fault or decode error caught by the
\* handler, which is entered from those steps only): a failed cycle leaves the
\* identical run as it was.
C19_FailedCycleKeepsRun ==
    [][/\ pc \in PreCheckPcs =>
             stale_count' = stale_count /\ last_reading' = last_reading
       /\ pc' = "except_read" => pc \in PreCheckPcs
       /\ pc \in CyclePcs /\ pc' = "loop_got" /\ result' = None =>
             pc \in {"short", "except_read", "stale_clear"}]_vars

\* a failed cycle has returned with nine repeats counted and the prior in place
C19_Witness ==
    /\ pc = "loop_got"
    /\ ~mock
    /\ result = None
    /\ ~cycStale
    /\ stale_count = 9
    /\ last_reading # None

\* C20: _latest_reading changes only in the assignment that follows a read()
\* which returned a reading, and then holds that reading; no other step (a
\* failed cycle, a recovery, a failed insert) changes it; the insert is tried
\* only with the slot already holding the reading; a slot that holds a reading
\* never becomes empty.
C20_SlotHoldsLastReading ==
    [][/\ latest' # latest =>
             pc = "assign" /\ result # None /\ latest' = result
       /\ latest # None => latest' # None
       /\ pc = "insert" => latest = result /\ result # None
       /\ db' # db => pc = "insert" /\ db' = latest]_vars

\* the insert of a new reading has failed and the slot holds that reading
C20_Witness ==
    /\ pc = "sleep"
    /\ latest # None
    /\ db # None
    /\ db # latest

====
